---------------------------- MODULE Spec2Model ----------------------------
(***************************************************************************)
(* Model of the BLE REPL transport of s1-micropython (src/main.c): the two *)
(* ring buffers rx and tx, the console byte interface                      *)
(* (mp_hal_stdout_tx_strn, mp_hal_stdin_rx_chr), the outbound sender       *)
(* (ble_send_pending_data) and the SoftDevice event handler                *)
(* (SWI2_IRQHandler).                                                      *)
(*                                                                         *)
(* Two execution contexts.  The foreground context is a sequential program *)
(* whose position is pc; each foreground action is one step that reads or  *)
(* writes at most one variable shared with the interrupt.  The interrupt   *)
(* context (SWI2_IRQHandler) preempts the foreground between any two steps *)
(* and runs one event arm to completion as one action.                     *)
(*                                                                         *)
(* Bytes are tagged: the k-th byte the console writes is k % 256 and the   *)
(* k-th byte the peer delivers is k % 256, so that a lost, duplicated or   *)
(* reordered byte is visible in the histories.                             *)
(***************************************************************************)
EXTENDS Integers, Sequences, FiniteSets, TLC

(***************************************************************************)
(* Bounds of the model.                                                    *)
(***************************************************************************)
\* src/main.c:125 sets 1024 + 45; the model runs the same code on a small ring
RING_BUFFER_LENGTH == 4
\* bytes one direction carries in one run (the peer's deliveries or the
\* console's writes); the other direction carries a single byte
MaxBytes == 5
\* longest payload of one write_bytes call or one data-delivery event
MaxLen == 3
\* congestion results the transport returns to one sender invocation
MaxRetries == 2
\* connect events in one run
MaxConnects == 2

(***************************************************************************)
(* Program constants.                                                      *)
(***************************************************************************)
MAX_MTU_LENGTH == 128
BLE_CONN_HANDLE_INVALID == 65535
NRF_SUCCESS == 0
NRF_ERROR_INVALID_PARAM == 7
NRF_ERROR_INVALID_STATE == 8
NRF_ERROR_RESOURCES == 19
BLE_ERROR_INVALID_CONN_HANDLE == 12290

\* client_rx_mtu values a peer proposes (uint16_t, src/main.c:789)
ClientRxMtus == {5, 64, 247}
\* conn_handle values of connect events (conn_count = 1, src/main.c:383)
ConnHandles == {0}

VARIABLES
    rx,             \* inbound ring: [buffer, head, tail]
    tx,             \* outbound ring: [buffer, head, tail]
    ble_handles,    \* [connection]
    negotiated_mtu, \* uint16_t, zero-initialised static
    pc,             \* position of the foreground context
    out_buffer,     \* bytes written into the sender's scratch chunk so far
    out_len,        \* uint16_t out_len of the sender
    evt_pending,    \* an event has been raised since the last wait returned
    \* ---- histories and environment (not program state) ----
    rxArrived,      \* number of bytes the peer has delivered
    rxAccepted,     \* bytes stored into rx, in order
    rxReturned,     \* bytes returned by mp_hal_stdin_rx_chr, in order
    txWritten,      \* number of bytes the console has written
    txAccepted,     \* bytes stored into tx, in order
    txPopped,       \* bytes the sender took out of tx, in order
    txSent,         \* bytes of successful transmissions, in order
    hvx_log,        \* transmit attempts of the current sender invocation
    entry,          \* tx head/tail when the current sender invocation began
    drain,          \* what the current mp_hal_stdin_rx_chr call has transmitted
    connects,       \* connect events so far
    txDiscarded,    \* bytes of chunks the sender gave up on, in order
    client_rx_mtu,  \* client_rx_mtu of the latest MTU request, -1 before any
    link,           \* conn_handle of the peer the SoftDevice is connected to
    advertising,    \* the SoftDevice is advertising
    adv_starts,     \* sd_ble_gap_adv_start calls so far
    dispatch,       \* the event arm that ran in the latest step, and its calls
    \* ---- statics of the machine modules (src/modules) ----
    fpga_state,     \* fpga_state_t
    done_pin_irq,   \* [enabled, handler]
    done_pin,       \* level of nRF pin 16 when last read
    irq_requested,  \* FPGA.irq(handler) was called, irq_disable() not since
    done_irq,       \* what the latest done-pin interrupt did
    waiting,        \* flag of RTC.sleep_ms
    cc1,            \* compare channel 1 of the RTC is enabled
    flash_asleep,   \* "Local flag to indicate if the flash is asleep"
    flash_call,     \* the latest Flash method call and its SPI transfers
    rxBudget,       \* bytes the peer delivers in this run
    txBudget        \* bytes the console writes in this run

rings == <<rx, tx>>
conn == <<ble_handles, negotiated_mtu>>
locals == <<out_buffer, out_len>>
rxHist == <<rxArrived, rxAccepted, rxReturned>>
txHist == <<txWritten, txAccepted, txPopped, txSent>>
budgets == <<rxBudget, txBudget>>
gap == <<link, advertising, adv_starts>>
env == <<txDiscarded, client_rx_mtu, gap>>

fpga == <<fpga_state, done_pin_irq, done_pin, irq_requested, done_irq>>
rtc == <<waiting, cc1>>
flash == <<flash_asleep, flash_call>>
mods == <<fpga, rtc, flash>>

vars == <<rings, conn, pc, locals, evt_pending, rxHist, txHist, hvx_log,
          entry, drain, connects, budgets, env, dispatch, mods>>

Min(a, b) == IF a < b THEN a ELSE b

(***************************************************************************)
(* Ring buffers (src/main.c:130-144).                                      *)
(***************************************************************************)
RingInit == [buffer |-> [i \in 0..(RING_BUFFER_LENGTH - 1) |-> 0],
             head |-> 0, tail |-> 0]

\* "Roll back to 0 once we hit the limit"
Roll(next) == IF next = RING_BUFFER_LENGTH THEN 0 ELSE next

\* number of bytes from index a up to index b, and those bytes
Span(a, b) == (b - a + RING_BUFFER_LENGTH) % RING_BUFFER_LENGTH
Slice(buffer, a, b) == [i \in 1..Span(a, b) |->
                           buffer[(a + i - 1) % RING_BUFFER_LENGTH]]

\* number of live bytes and the live bytes, from tail up to head
Count(ring) == Span(ring.tail, ring.head)
Live(ring) == Slice(ring.buffer, ring.tail, ring.head)

\* free slots of a ring: N-1 minus the live bytes
Free(ring) == (RING_BUFFER_LENGTH - 1) - Count(ring)
IsFull(ring) == Roll(ring.head + 1) = ring.tail

\* the tagged payload of len bytes that follows the first k bytes
Payload(k, len) == [i \in 1..len |-> (k + i) % 256]

(***************************************************************************)
(* mp_hal_stdout_tx_strn: the for loop over str, from index length on.     *)
(***************************************************************************)
\* variant: the character is stored at the incremented position
RECURSIVE StdoutTxLoopStoreAtNext(_, _, _)
StdoutTxLoopStoreAtNext(ring, str, length) ==
    IF ~(length < Len(str)) THEN ring
    ELSE LET next == Roll(ring.head + 1) IN
         IF next = ring.tail THEN ring
         ELSE StdoutTxLoopStoreAtNext(
                  [ring EXCEPT !.buffer[next] = str[length + 1], !.head = next],
                  str, length + 1)

\* variant: no break when the ring is full
RECURSIVE StdoutTxLoopNoBreak(_, _, _)
StdoutTxLoopNoBreak(ring, str, length) ==
    IF ~(length < Len(str)) THEN ring
    ELSE LET next == Roll(ring.head + 1) IN
         StdoutTxLoopNoBreak(
             [ring EXCEPT !.buffer[ring.head] = str[length + 1], !.head = next],
             str, length + 1)

\* variant: a full ring gives up its oldest byte to the new one
RECURSIVE StdoutTxLoopOverwriteOldest(_, _, _)
StdoutTxLoopOverwriteOldest(ring, str, length) ==
    IF ~(length < Len(str)) THEN ring
    ELSE LET next == Roll(ring.head + 1)
             tail == IF next = ring.tail THEN Roll(ring.tail + 1) ELSE ring.tail
         IN StdoutTxLoopOverwriteOldest(
                [ring EXCEPT !.buffer[ring.head] = str[length + 1],
                             !.head = next, !.tail = tail],
                str, length + 1)

RECURSIVE StdoutTxLoop(_, _, _)
StdoutTxLoop(ring, str, length) ==
    IF ~(length < Len(str)) THEN ring
    ELSE LET next == Roll(ring.head + 1) IN
         IF next = ring.tail THEN ring
         ELSE StdoutTxLoop([ring EXCEPT !.buffer[ring.head] = str[length + 1],
                                        !.head = next],
                           str, length + 1)

(***************************************************************************)
(* BLE_GATTS_EVT_WRITE arm: the for loop over write.data.                  *)
(***************************************************************************)
\* variant: a payload that does not fit is dropped whole
RECURSIVE GattsWriteLoopAllOrNothing(_, _, _)
GattsWriteLoopAllOrNothing(ring, data, length) ==
    IF ~(length < Len(data)) THEN ring
    ELSE IF length = 0 /\ Len(data) > Free(ring) THEN ring
    ELSE LET next == Roll(ring.head + 1) IN
         IF next = ring.tail THEN ring
         ELSE GattsWriteLoopAllOrNothing(
                  [ring EXCEPT !.buffer[ring.head] = data[length + 1],
                               !.head = next],
                  data, length + 1)

\* variant: no break when the ring is full
RECURSIVE GattsWriteLoopNoBreak(_, _, _)
GattsWriteLoopNoBreak(ring, data, length) ==
    IF ~(length < Len(data)) THEN ring
    ELSE LET next == Roll(ring.head + 1) IN
         GattsWriteLoopNoBreak(
             [ring EXCEPT !.buffer[ring.head] = data[length + 1], !.head = next],
             data, length + 1)

RECURSIVE GattsWriteLoop(_, _, _)
GattsWriteLoop(ring, data, length) ==
    IF ~(length < Len(data)) THEN ring
    ELSE LET next == Roll(ring.head + 1) IN
         IF next = ring.tail THEN ring
         ELSE GattsWriteLoop([ring EXCEPT !.buffer[ring.head] = data[length + 1],
                                          !.head = next],
                             data, length + 1)

\* times the body of that for loop is entered, the pass that breaks included
RECURSIVE GattsWriteIterations(_, _, _)
GattsWriteIterations(ring, data, length) ==
    IF ~(length < Len(data)) THEN 0
    ELSE LET next == Roll(ring.head + 1) IN
         IF next = ring.tail THEN 1
         ELSE 1 + GattsWriteIterations(
                      [ring EXCEPT !.buffer[ring.head] = data[length + 1],
                                   !.head = next],
                      data, length + 1)

\* bytes of data a loop stored: as many as the head moved, from the first on
Accepted(data, before, after) ==
    SubSeq(data, 1, Span(before.head, after.head))

\* <<rxBudget, txBudget>>: a run loads one direction with MaxBytes bytes and
\* the other with a single byte
Budgets == {<<MaxBytes, 1>>, <<1, MaxBytes>>}

NoEntry == [head |-> 0, tail |-> 0]
NoDrain == [bytes |-> <<>>, mtu |-> 0, chunks |-> <<>>, calls |-> 0,
            ok |-> FALSE]

\* no event arm ran in the latest step
NoDispatch == [evt_id |-> "none", conn_handle |-> BLE_CONN_HANDLE_INVALID,
               calls |-> <<>>]

\* no done-pin interrupt yet
NoDoneIrq == [state |-> "none", level |-> 0, called |-> FALSE, arg |-> 0]

\* no Flash method called yet
NoFlashCall == [fn |-> "none", args |-> "none", xfers |-> <<>>]

\* the statics of machine_fpga.c, machine_rtc.c and machine_flash.c
ModStatics ==
    /\ fpga_state = "FPGA_RESET"
    /\ done_pin_irq = [enabled |-> FALSE, handler |-> "MP_OBJ_NULL"]
    /\ done_pin = 0
    /\ irq_requested = FALSE
    /\ done_irq = NoDoneIrq
    /\ waiting = FALSE
    /\ cc1 = FALSE
    /\ flash_asleep = TRUE
    /\ flash_call = NoFlashCall

\* the statics after startup and ble_init
Statics ==
    /\ rx = RingInit
    /\ tx = RingInit
    /\ ble_handles = [connection |-> BLE_CONN_HANDLE_INVALID]
    /\ negotiated_mtu = 0
    /\ pc = "console"
    /\ out_buffer = <<>>
    /\ out_len = 0
    /\ evt_pending = FALSE
    /\ rxArrived = 0
    /\ rxAccepted = <<>>
    /\ rxReturned = <<>>
    /\ txWritten = 0
    /\ txAccepted = <<>>
    /\ txPopped = <<>>
    /\ txSent = <<>>
    /\ hvx_log = <<>>
    /\ entry = NoEntry
    /\ drain = NoDrain
    /\ connects = 0
    /\ txDiscarded = <<>>
    /\ client_rx_mtu = -1
    /\ link = BLE_CONN_HANDLE_INVALID
    \* ble_init has run: its last call is sd_ble_gap_adv_start
    /\ advertising = TRUE
    /\ adv_starts = 1
    /\ dispatch = NoDispatch
    /\ ModStatics

Init ==
    /\ Statics
    /\ \E b \in Budgets : rxBudget = b[1] /\ txBudget = b[2]

(***************************************************************************)
(* Foreground context.                                                     *)
(***************************************************************************)
\* the console calls mp_hal_stdout_tx_strn(str, len)
mp_hal_stdout_tx_strn(len) ==
    /\ pc = "console"
    /\ txWritten + len <= txBudget
    /\ LET str == Payload(txWritten, len)
           after == StdoutTxLoop(tx, str, 0)
       IN /\ tx' = after
          /\ txAccepted' = txAccepted \o Accepted(str, tx, after)
    /\ txWritten' = txWritten + len
    /\ UNCHANGED <<rx, conn, pc, locals, evt_pending, rxHist, txPopped, txSent, hvx_log,
                   entry, drain, connects, budgets, env>>

\* the console calls mp_hal_stdin_rx_chr()
rx_chr_call ==
    /\ pc = "console"
    /\ pc' = "rx_wait"
    /\ drain' = [bytes |-> Live(tx), mtu |-> negotiated_mtu, chunks |-> <<>>,
                 calls |-> 0, ok |-> TRUE]
    /\ UNCHANGED <<rings, conn, locals, evt_pending, rxHist, txHist, hvx_log,
                   entry, connects, budgets, env>>

\* variant: the loop is left without looking at rx
rx_chr_while_no_wait ==
    /\ pc = "rx_wait"
    /\ pc' = "rx_pop"
    /\ UNCHANGED <<rings, conn, locals, evt_pending, rxHist, txHist, hvx_log,
                   entry, drain, connects, budgets, env>>

\* variant: the body of the loop, and with it the sender, runs on every
\* test of the loop condition
rx_chr_while_always_sends ==
    /\ pc = "rx_wait"
    /\ pc' = "send_entry"
    /\ UNCHANGED <<rings, conn, locals, evt_pending, rxHist, txHist, hvx_log,
                   entry, drain, connects, budgets, env>>

\* while (rx.head == rx.tail): enter the body or leave the loop
rx_chr_while ==
    /\ pc = "rx_wait"
    /\ pc' = IF rx.head = rx.tail THEN "send_entry" ELSE "rx_pop"
    /\ UNCHANGED <<rings, conn, locals, evt_pending, rxHist, txHist, hvx_log,
                   entry, drain, connects, budgets, env>>

\* variant: the sender goes on to the chunk loop without looking at tx
send_entry_no_check ==
    /\ pc = "send_entry"
    /\ out_buffer' = <<>>
    /\ out_len' = 0
    /\ pc' = "send_loop"
    /\ entry' = [head |-> tx.head, tail |-> tx.tail]
    /\ drain' = [drain EXCEPT !.calls = @ + 1]
    /\ UNCHANGED <<rings, conn, evt_pending, rxHist, txHist, hvx_log, connects,
                   budgets, env>>

\* ble_send_pending_data: locals and "If there's no data to send, simply return"
send_entry ==
    /\ pc = "send_entry"
    /\ out_buffer' = <<>>
    /\ out_len' = 0
    /\ IF tx.head = tx.tail
       THEN /\ pc' = "rx_idle"
            /\ UNCHANGED <<entry, drain>>
       ELSE /\ pc' = "send_loop"
            /\ entry' = [head |-> tx.head, tail |-> tx.tail]
            /\ drain' = [drain EXCEPT !.calls = @ + 1]
    /\ UNCHANGED <<rings, conn, evt_pending, rxHist, txHist, hvx_log, connects,
                   budgets, env>>

\* variant: the break comes one byte late
OverRunLate(len, mtu) == len > mtu

\* "Break if we over-run the negotiated MTU size"
OverRun(len, mtu) == len >= mtu

\* variant: the character is copied from the incremented position
send_loop_copy_at_next ==
    /\ pc = "send_loop"
    /\ IF tx.tail # tx.head
       THEN LET next == Roll(tx.tail + 1) IN
            /\ out_buffer' = Append(out_buffer, tx.buffer[next])
            /\ out_len' = out_len + 1
            /\ tx' = [tx EXCEPT !.tail = next]
            /\ txPopped' = Append(txPopped, tx.buffer[tx.tail])
            /\ pc' = IF OverRun(out_len + 1, negotiated_mtu)
                     THEN "send_hvx" ELSE "send_loop"
       ELSE /\ pc' = "send_hvx"
            /\ UNCHANGED <<locals, tx, txPopped>>
    /\ UNCHANGED <<rx, conn, evt_pending, rxHist, txWritten, txAccepted,
                   txSent, hvx_log, entry, drain, connects, budgets, env>>

\* ble_send_pending_data: one iteration of while (tx.tail != tx.head)
send_loop ==
    /\ pc = "send_loop"
    /\ IF tx.tail # tx.head
       THEN LET next == Roll(tx.tail + 1) IN
            /\ out_buffer' = Append(out_buffer, tx.buffer[tx.tail])
            /\ out_len' = out_len + 1
            /\ tx' = [tx EXCEPT !.tail = next]
            /\ txPopped' = Append(txPopped, tx.buffer[tx.tail])
            /\ pc' = IF OverRun(out_len + 1, negotiated_mtu)
                     THEN "send_hvx" ELSE "send_loop"
       ELSE /\ pc' = "send_hvx"
            /\ UNCHANGED <<locals, tx, txPopped>>
    /\ UNCHANGED <<rx, conn, evt_pending, rxHist, txWritten, txAccepted,
                   txSent, hvx_log, entry, drain, connects, budgets, env>>

\* results sd_ble_gatts_hvx can return for the connection handle it is given
HvxResults(conn_handle) ==
    IF conn_handle = BLE_CONN_HANDLE_INVALID
    THEN {BLE_ERROR_INVALID_CONN_HANDLE}
    ELSE {NRF_SUCCESS, NRF_ERROR_RESOURCES, NRF_ERROR_INVALID_STATE,
          NRF_ERROR_INVALID_PARAM}

\* variant: the top 16 bits decide
assert_if_top_bits(err) == (err \div 65536) # 0

\* variant: any non-zero result resets
assert_if_any_bit(err) == err # 0

\* assert_if resets the system: "Only care about the bottom 16 bits"
assert_if(err) == (err % 65536) # 0

\* the attempt as the transport sees it: p_data, *p_len, the result, and
\* which connection of the run (the connects-th) it was made on
Attempt(err) == [data |-> SubSeq(out_buffer, 1, out_len), len |-> out_len,
                 err |-> err, epoch |-> connects]

\* sd_ble_gatts_hvx returned success: assert_if(0) returns, the sender returns
hvx_success ==
    /\ pc = "send_hvx"
    /\ NRF_SUCCESS \in HvxResults(ble_handles.connection)
    /\ ~assert_if(NRF_SUCCESS)
    /\ hvx_log' = Append(hvx_log, Attempt(NRF_SUCCESS))
    /\ txSent' = txSent \o SubSeq(out_buffer, 1, out_len)
    /\ drain' = [drain EXCEPT !.chunks = Append(@, SubSeq(out_buffer, 1, out_len))]
    /\ out_buffer' = <<>>
    /\ out_len' = 0
    /\ pc' = "rx_idle"
    /\ UNCHANGED <<rings, conn, evt_pending, rxHist, txWritten, txAccepted,
                   txPopped, entry, connects, budgets, env>>

\* variant: the chunk is put back by rewinding the tail before returning
hvx_not_connected_requeue ==
    /\ pc = "send_hvx"
    /\ \E err \in HvxResults(ble_handles.connection) :
          /\ err = NRF_ERROR_INVALID_STATE \/ err = BLE_ERROR_INVALID_CONN_HANDLE
          /\ hvx_log' = Append(hvx_log, Attempt(err))
    /\ drain' = [drain EXCEPT !.ok = FALSE]
    /\ txDiscarded' = txDiscarded \o SubSeq(out_buffer, 1, out_len)
    /\ tx' = [tx EXCEPT !.tail = entry.tail]
    /\ txPopped' = SubSeq(txPopped, 1, Len(txPopped) - out_len)
    /\ out_buffer' = <<>>
    /\ out_len' = 0
    /\ pc' = "rx_idle"
    /\ UNCHANGED <<rx, conn, evt_pending, rxHist, txWritten, txAccepted, txSent,
                   entry, connects, budgets, client_rx_mtu, gap>>

\* variant: on a not-connected result the sender marks the connection gone
hvx_not_connected_clear_handle ==
    /\ pc = "send_hvx"
    /\ \E err \in HvxResults(ble_handles.connection) :
          /\ err = NRF_ERROR_INVALID_STATE \/ err = BLE_ERROR_INVALID_CONN_HANDLE
          /\ hvx_log' = Append(hvx_log, Attempt(err))
    /\ drain' = [drain EXCEPT !.ok = FALSE]
    /\ txDiscarded' = txDiscarded \o SubSeq(out_buffer, 1, out_len)
    /\ ble_handles' = [ble_handles EXCEPT !.connection = BLE_CONN_HANDLE_INVALID]
    /\ out_buffer' = <<>>
    /\ out_len' = 0
    /\ pc' = "rx_idle"
    /\ UNCHANGED <<rings, negotiated_mtu, evt_pending, rxHist, txHist, entry,
                   connects, budgets, client_rx_mtu, gap>>

\* "Ignore errors if not connected": the sender returns, out_buffer is gone
hvx_not_connected ==
    /\ pc = "send_hvx"
    /\ \E err \in HvxResults(ble_handles.connection) :
          /\ err = NRF_ERROR_INVALID_STATE \/ err = BLE_ERROR_INVALID_CONN_HANDLE
          /\ hvx_log' = Append(hvx_log, Attempt(err))
    /\ drain' = [drain EXCEPT !.ok = FALSE]
    /\ txDiscarded' = txDiscarded \o SubSeq(out_buffer, 1, out_len)
    /\ out_buffer' = <<>>
    /\ out_len' = 0
    /\ pc' = "rx_idle"
    /\ UNCHANGED <<rings, conn, evt_pending, rxHist, txHist, entry, connects,
                   budgets, client_rx_mtu, gap>>

\* variant: the retry jumps back to the loop that fills the chunk
hvx_resources_refill ==
    /\ pc = "send_hvx"
    /\ NRF_ERROR_RESOURCES \in HvxResults(ble_handles.connection)
    /\ Len(hvx_log) < MaxRetries
    /\ hvx_log' = Append(hvx_log, Attempt(NRF_ERROR_RESOURCES))
    /\ drain' = [drain EXCEPT !.ok = FALSE]
    /\ pc' = "send_loop"
    /\ UNCHANGED <<rings, conn, locals, evt_pending, rxHist, txHist, entry,
                   connects, budgets, env>>

\* "If there is an overflow": NRFX_DELAY_US(100); goto hvx_try_again
hvx_resources ==
    /\ pc = "send_hvx"
    /\ NRF_ERROR_RESOURCES \in HvxResults(ble_handles.connection)
    /\ Len(hvx_log) < MaxRetries
    /\ hvx_log' = Append(hvx_log, Attempt(NRF_ERROR_RESOURCES))
    /\ drain' = [drain EXCEPT !.ok = FALSE]
    /\ pc' = "send_hvx"
    /\ UNCHANGED <<rings, conn, locals, evt_pending, rxHist, txHist, entry,
                   connects, budgets, env>>

\* "Catch other errors": assert_if(err) resets the system, or returns to the
\* sender, which then returns
hvx_other ==
    /\ pc = "send_hvx"
    /\ \E err \in HvxResults(ble_handles.connection) :
          /\ err \notin {NRF_SUCCESS, NRF_ERROR_INVALID_STATE,
                         BLE_ERROR_INVALID_CONN_HANDLE, NRF_ERROR_RESOURCES}
          /\ hvx_log' = Append(hvx_log, Attempt(err))
          /\ pc' = IF assert_if(err) THEN "reset" ELSE "rx_idle"
    /\ drain' = [drain EXCEPT !.ok = FALSE]
    /\ UNCHANGED <<rings, conn, locals, evt_pending, rxHist, txHist, entry,
                   connects, budgets, env>>

\* variant: only rx is looked at before waiting
rx_chr_idle_rx_only ==
    /\ pc = "rx_idle"
    /\ pc' = IF rx.head = rx.tail THEN "evt_wait" ELSE "rx_wait"
    /\ hvx_log' = <<>>
    /\ entry' = NoEntry
    /\ UNCHANGED <<rings, conn, locals, evt_pending, rxHist, txHist, drain,
                   connects, budgets, env>>

\* if (tx.head == tx.tail && rx.head == rx.tail) sd_app_evt_wait();
rx_chr_idle ==
    /\ pc = "rx_idle"
    /\ pc' = IF tx.head = tx.tail /\ rx.head = rx.tail
             THEN "evt_wait" ELSE "rx_wait"
    /\ hvx_log' = <<>>
    /\ entry' = NoEntry
    /\ UNCHANGED <<rings, conn, locals, evt_pending, rxHist, txHist, drain,
                   connects, budgets, env>>

\* variant: the wait takes the raised event and goes on waiting
sd_app_evt_wait_sleeps_on ==
    /\ pc = "evt_wait"
    /\ evt_pending
    /\ evt_pending' = FALSE
    /\ pc' = "evt_wait"
    /\ UNCHANGED <<rings, conn, locals, rxHist, txHist, hvx_log, entry, drain,
                   connects, budgets, env>>

\* sd_app_evt_wait returns once an event has been raised
sd_app_evt_wait ==
    /\ pc = "evt_wait"
    /\ evt_pending
    /\ evt_pending' = FALSE
    /\ pc' = "rx_wait"
    /\ UNCHANGED <<rings, conn, locals, rxHist, txHist, hvx_log, entry, drain,
                   connects, budgets, env>>

\* variant: the character is read at the incremented position
rx_chr_pop_read_at_next ==
    /\ pc = "rx_pop"
    /\ LET next == Roll(rx.tail + 1)
           character == rx.buffer[next]
       IN /\ rx' = [rx EXCEPT !.tail = next]
          /\ rxReturned' = Append(rxReturned, character)
    /\ drain' = NoDrain
    /\ pc' = "console"
    /\ UNCHANGED <<tx, conn, locals, evt_pending, rxArrived, rxAccepted,
                   txHist, hvx_log, entry, connects, budgets, env>>

\* variant: once rx is empty the reader rewinds head and tail to index 0
rx_chr_pop_rewind ==
    /\ pc = "rx_pop"
    /\ LET next == Roll(rx.tail + 1)
           character == rx.buffer[rx.tail]
       IN /\ rx' = IF next = rx.head
                   THEN [rx EXCEPT !.head = 0, !.tail = 0]
                   ELSE [rx EXCEPT !.tail = next]
          /\ rxReturned' = Append(rxReturned, character)
    /\ drain' = NoDrain
    /\ pc' = "console"
    /\ UNCHANGED <<tx, conn, locals, evt_pending, rxArrived, rxAccepted,
                   txHist, hvx_log, entry, connects, budgets, env>>

\* mp_hal_stdin_rx_chr after the loop: read at the tail, advance it, return
rx_chr_pop ==
    /\ pc = "rx_pop"
    /\ LET next == Roll(rx.tail + 1)
           character == rx.buffer[rx.tail]
       IN /\ rx' = [rx EXCEPT !.tail = next]
          /\ rxReturned' = Append(rxReturned, character)
    /\ drain' = NoDrain
    /\ pc' = "console"
    /\ UNCHANGED <<tx, conn, locals, evt_pending, rxArrived, rxAccepted,
                   txHist, hvx_log, entry, connects, budgets, env>>

\* NVIC_SystemReset: the startup code re-initialises every static and main
\* runs ble_init again
NVIC_SystemReset ==
    /\ pc = "reset"
    /\ rx' = RingInit
    /\ tx' = RingInit
    /\ ble_handles' = [connection |-> BLE_CONN_HANDLE_INVALID]
    /\ negotiated_mtu' = 0
    /\ pc' = "console"
    /\ out_buffer' = <<>>
    /\ out_len' = 0
    /\ evt_pending' = FALSE
    /\ rxArrived' = 0
    /\ rxAccepted' = <<>>
    /\ rxReturned' = <<>>
    /\ txWritten' = 0
    /\ txAccepted' = <<>>
    /\ txPopped' = <<>>
    /\ txSent' = <<>>
    /\ hvx_log' = <<>>
    /\ entry' = NoEntry
    /\ drain' = NoDrain
    /\ connects' = 0
    /\ txDiscarded' = <<>>
    /\ client_rx_mtu' = -1
    /\ link' = BLE_CONN_HANDLE_INVALID
    /\ advertising' = TRUE
    /\ adv_starts' = 1
    /\ UNCHANGED budgets

(***************************************************************************)
(* Interrupt context: SWI2_IRQHandler, one arm per action.                 *)
(***************************************************************************)
Running == pc # "reset"
Connected == ble_handles.connection # BLE_CONN_HANDLE_INVALID
\* the SoftDevice has a peer: it raises connection events only then, and a
\* connect event only when it has none
LinkUp == link # BLE_CONN_HANDLE_INVALID

\* case BLE_GAP_EVT_CONNECTED; advertising ended when the peer connected
EvtConnected(conn_handle) ==
    /\ Running
    /\ ~LinkUp
    /\ connects < MaxConnects
    /\ link' = conn_handle
    /\ advertising' = FALSE
    /\ ble_handles' = [ble_handles EXCEPT !.connection = conn_handle]
    /\ connects' = connects + 1
    /\ evt_pending' = TRUE
    /\ UNCHANGED <<rings, negotiated_mtu, pc, locals, rxHist, txHist, hvx_log,
                   entry, drain, budgets, txDiscarded, client_rx_mtu,
                   adv_starts>>

\* sd_ble_gap_adv_start(ble_handles.advertising, 1)
sd_ble_gap_adv_start ==
    /\ advertising' = TRUE
    /\ adv_starts' = adv_starts + 1

\* variant: the handle is left as it was
EvtDisconnected_keep_handle ==
    /\ Running
    /\ LinkUp
    /\ link' = BLE_CONN_HANDLE_INVALID
    /\ advertising' = TRUE
    /\ adv_starts' = adv_starts + 1
    /\ evt_pending' = TRUE
    /\ UNCHANGED <<rings, conn, pc, locals, rxHist, txHist, hvx_log,
                   entry, drain, connects, budgets, txDiscarded, client_rx_mtu>>

\* variant: advertising is not started again
EvtDisconnected_no_adv_start ==
    /\ Running
    /\ LinkUp
    /\ link' = BLE_CONN_HANDLE_INVALID
    /\ ble_handles' = [ble_handles EXCEPT !.connection = BLE_CONN_HANDLE_INVALID]
    /\ evt_pending' = TRUE
    /\ UNCHANGED <<rings, negotiated_mtu, pc, locals, rxHist, txHist, hvx_log,
                   entry, drain, connects, budgets, txDiscarded, client_rx_mtu,
                   advertising, adv_starts>>

\* case BLE_GAP_EVT_DISCONNECTED
EvtDisconnected ==
    /\ Running
    /\ LinkUp
    /\ link' = BLE_CONN_HANDLE_INVALID
    /\ ble_handles' = [ble_handles EXCEPT !.connection = BLE_CONN_HANDLE_INVALID]
    /\ sd_ble_gap_adv_start
    /\ evt_pending' = TRUE
    /\ UNCHANGED <<rings, negotiated_mtu, pc, locals, rxHist, txHist, hvx_log,
                   entry, drain, connects, budgets, txDiscarded, client_rx_mtu>>

\* variant: the cap is applied without the 3 bytes of ATT header
NegotiatedMtuNoHeader(client_mtu) ==
    IF MAX_MTU_LENGTH < client_mtu
    THEN MAX_MTU_LENGTH
    ELSE (client_mtu - 3) % 65536

\* "Choose the smaller MTU as the final length we'll use", in uint16_t
NegotiatedMtu(client_mtu) ==
    IF MAX_MTU_LENGTH < client_mtu
    THEN MAX_MTU_LENGTH - 3
    ELSE (client_mtu - 3) % 65536

\* case BLE_GATTS_EVT_EXCHANGE_MTU_REQUEST
EvtExchangeMtuRequest(client_mtu) ==
    /\ Running
    /\ LinkUp
    /\ client_rx_mtu' = client_mtu
    /\ negotiated_mtu' = NegotiatedMtu(client_mtu)
    /\ drain' = [drain EXCEPT !.ok = @ /\ NegotiatedMtu(client_mtu) = negotiated_mtu]
    /\ evt_pending' = TRUE
    /\ UNCHANGED <<rings, ble_handles, pc, locals, rxHist, txHist, hvx_log,
                   entry, connects, budgets, txDiscarded, gap>>

\* variant: the arm waits for room when rx is full
EvtWrite_waits_for_room(len) ==
    /\ Running
    /\ LinkUp
    /\ rxArrived + len <= rxBudget
    /\ ~IsFull(rx)
    /\ LET data == Payload(rxArrived, len)
           after == GattsWriteLoop(rx, data, 0)
       IN /\ rx' = after
          /\ rxAccepted' = rxAccepted \o Accepted(data, rx, after)
    /\ rxArrived' = rxArrived + len
    /\ evt_pending' = TRUE
    /\ UNCHANGED <<tx, conn, pc, locals, rxReturned, txHist, hvx_log, entry,
                   drain, connects, budgets, env>>

\* case BLE_GATTS_EVT_WRITE
EvtWrite(len) ==
    /\ Running
    /\ LinkUp
    /\ rxArrived + len <= rxBudget
    /\ LET data == Payload(rxArrived, len)
           after == GattsWriteLoop(rx, data, 0)
       IN /\ rx' = after
          /\ rxAccepted' = rxAccepted \o Accepted(data, rx, after)
    /\ rxArrived' = rxArrived + len
    /\ evt_pending' = TRUE
    /\ UNCHANGED <<tx, conn, pc, locals, rxReturned, txHist, hvx_log, entry,
                   drain, connects, budgets, env>>

\* one step of the foreground context
Foreground ==
    \/ \E len \in 1..MaxLen : mp_hal_stdout_tx_strn(len)
    \/ rx_chr_call
    \/ rx_chr_while
    \/ send_entry
    \/ send_loop
    \/ hvx_success
    \/ hvx_not_connected
    \/ hvx_resources
    \/ hvx_other
    \/ rx_chr_idle
    \/ sd_app_evt_wait
    \/ rx_chr_pop
    \/ NVIC_SystemReset

\* the data path: the arms above with their SoftDevice calls succeeding; the
\* calls themselves are not recorded
Next ==
    \/ (\E len \in 1..MaxLen : mp_hal_stdout_tx_strn(len)) /\ UNCHANGED <<dispatch, mods>>
    \/ rx_chr_call /\ UNCHANGED <<dispatch, mods>>
    \/ rx_chr_while /\ UNCHANGED <<dispatch, mods>>
    \/ send_entry /\ UNCHANGED <<dispatch, mods>>
    \/ send_loop /\ UNCHANGED <<dispatch, mods>>
    \/ hvx_success /\ UNCHANGED <<dispatch, mods>>
    \/ hvx_not_connected /\ UNCHANGED <<dispatch, mods>>
    \/ hvx_resources /\ UNCHANGED <<dispatch, mods>>
    \/ hvx_other /\ UNCHANGED <<dispatch, mods>>
    \/ rx_chr_idle /\ UNCHANGED <<dispatch, mods>>
    \/ sd_app_evt_wait /\ UNCHANGED <<dispatch, mods>>
    \/ rx_chr_pop /\ UNCHANGED <<dispatch, mods>>
    \/ NVIC_SystemReset /\ UNCHANGED <<dispatch, mods>>
    \/ (\E conn_handle \in ConnHandles : EvtConnected(conn_handle))
          /\ UNCHANGED <<dispatch, mods>>
    \/ EvtDisconnected /\ UNCHANGED <<dispatch, mods>>
    \/ (\E client_mtu \in ClientRxMtus : EvtExchangeMtuRequest(client_mtu))
          /\ UNCHANGED <<dispatch, mods>>
    \/ (\E len \in 1..MaxLen : EvtWrite(len)) /\ UNCHANGED <<dispatch, mods>>

Spec == Init /\ [][Next]_vars

(***************************************************************************)
(* SWI2_IRQHandler in full: every arm of the switch, the SoftDevice calls  *)
(* it makes and their results, over a short run of the data path.  dispatch *)
(* names the arm that ran in the latest step.                              *)
(***************************************************************************)
BLE_GAP_PHY_AUTO == 0
BLE_HCI_REMOTE_USER_TERMINATED_CONNECTION == 19
BLE_GAP_SEC_STATUS_PAIRING_NOT_SUPP == 133

\* results of a SoftDevice call the handler hands to assert_if
SdResults == {NRF_SUCCESS, NRF_ERROR_INVALID_STATE}

\* bytes each direction carries in the short run
EvtBytes == 1

\* <<rxBudget, txBudget>> of the short run
EvtBudgets == {<<EvtBytes, EvtBytes>>}

SdCall(fn, conn_handle, arg, err) ==
    [fn |-> fn, conn_handle |-> conn_handle, arg |-> arg, err |-> err]

Dispatch(evt_id, conn_handle, calls) ==
    [evt_id |-> evt_id, conn_handle |-> conn_handle, calls |-> calls]

\* an arm that makes one call, hands its result to assert_if and breaks
ReplyArm(evt_id, fn, arg, err) ==
    /\ dispatch' = Dispatch(evt_id, link, <<SdCall(fn, link, arg, err)>>)
    /\ pc' = IF assert_if(err) THEN "reset" ELSE pc
    /\ evt_pending' = TRUE
    /\ UNCHANGED <<rings, conn, locals, rxHist, txHist, hvx_log, entry, drain,
                   connects, budgets, env>>

\* variant: the handle is recorded after the calls
BLE_GAP_EVT_CONNECTED_record_last(conn_handle, err) ==
    /\ Running
    /\ ~LinkUp
    /\ connects < MaxConnects
    /\ link' = conn_handle
    /\ advertising' = FALSE
    /\ connects' = connects + 1
    /\ dispatch' = Dispatch("BLE_GAP_EVT_CONNECTED", conn_handle,
           <<SdCall("sd_ble_gap_ppcp_get", BLE_CONN_HANDLE_INVALID,
                    "conn_params", NRF_SUCCESS),
             SdCall("sd_ble_gap_conn_param_update", conn_handle,
                    "conn_params", err)>>)
    /\ IF assert_if(err)
       THEN pc' = "reset" /\ UNCHANGED ble_handles
       ELSE /\ pc' = pc
            /\ ble_handles' = [ble_handles EXCEPT !.connection = conn_handle]
    /\ evt_pending' = TRUE
    /\ UNCHANGED <<rings, negotiated_mtu, locals, rxHist, txHist, hvx_log,
                   entry, drain, budgets, txDiscarded, client_rx_mtu,
                   adv_starts>>

\* case BLE_GAP_EVT_CONNECTED: the handle, sd_ble_gap_ppcp_get (which cannot
\* fail on a valid pointer), sd_ble_gap_conn_param_update, assert_if
BLE_GAP_EVT_CONNECTED(conn_handle, err) ==
    /\ Running
    /\ ~LinkUp
    /\ connects < MaxConnects
    /\ link' = conn_handle
    /\ advertising' = FALSE
    /\ connects' = connects + 1
    /\ ble_handles' = [ble_handles EXCEPT !.connection = conn_handle]
    /\ dispatch' = Dispatch("BLE_GAP_EVT_CONNECTED", conn_handle,
           <<SdCall("sd_ble_gap_ppcp_get", BLE_CONN_HANDLE_INVALID,
                    "conn_params", NRF_SUCCESS),
             SdCall("sd_ble_gap_conn_param_update", conn_handle,
                    "conn_params", err)>>)
    /\ pc' = IF assert_if(err) THEN "reset" ELSE pc
    /\ evt_pending' = TRUE
    /\ UNCHANGED <<rings, negotiated_mtu, locals, rxHist, txHist, hvx_log,
                   entry, drain, budgets, txDiscarded, client_rx_mtu,
                   adv_starts>>

\* variant: the arm flushes both rings
BLE_GAP_EVT_DISCONNECTED_flush(err) ==
    /\ Running
    /\ LinkUp
    /\ link' = BLE_CONN_HANDLE_INVALID
    /\ ble_handles' = [ble_handles EXCEPT !.connection = BLE_CONN_HANDLE_INVALID]
    /\ advertising' = (err = NRF_SUCCESS)
    /\ adv_starts' = adv_starts + 1
    /\ rx' = [rx EXCEPT !.tail = rx.head]
    /\ tx' = [tx EXCEPT !.tail = tx.head]
    /\ dispatch' = Dispatch("BLE_GAP_EVT_DISCONNECTED", link,
           <<SdCall("sd_ble_gap_adv_start", BLE_CONN_HANDLE_INVALID,
                    "ble_handles.advertising", err)>>)
    /\ pc' = IF assert_if(err) THEN "reset" ELSE pc
    /\ evt_pending' = TRUE
    /\ UNCHANGED <<negotiated_mtu, locals, rxHist, txHist, hvx_log,
                   entry, drain, connects, budgets, txDiscarded, client_rx_mtu>>

\* case BLE_GAP_EVT_DISCONNECTED: the handle, sd_ble_gap_adv_start, assert_if
BLE_GAP_EVT_DISCONNECTED(err) ==
    /\ Running
    /\ LinkUp
    /\ link' = BLE_CONN_HANDLE_INVALID
    /\ ble_handles' = [ble_handles EXCEPT !.connection = BLE_CONN_HANDLE_INVALID]
    /\ advertising' = (err = NRF_SUCCESS)
    /\ adv_starts' = adv_starts + 1
    /\ dispatch' = Dispatch("BLE_GAP_EVT_DISCONNECTED", link,
           <<SdCall("sd_ble_gap_adv_start", BLE_CONN_HANDLE_INVALID,
                    "ble_handles.advertising", err)>>)
    /\ pc' = IF assert_if(err) THEN "reset" ELSE pc
    /\ evt_pending' = TRUE
    /\ UNCHANGED <<rings, negotiated_mtu, locals, rxHist, txHist, hvx_log,
                   entry, drain, connects, budgets, txDiscarded, client_rx_mtu>>

\* case BLE_GAP_EVT_PHY_UPDATE_REQUEST
BLE_GAP_EVT_PHY_UPDATE_REQUEST(err) ==
    /\ Running
    /\ LinkUp
    /\ ReplyArm("BLE_GAP_EVT_PHY_UPDATE_REQUEST", "sd_ble_gap_phy_update",
             BLE_GAP_PHY_AUTO, err)

\* variant: negotiated_mtu is assigned before the reply is made
BLE_GATTS_EVT_EXCHANGE_MTU_REQUEST_assign_first(client_mtu, err) ==
    /\ Running
    /\ LinkUp
    /\ dispatch' = Dispatch("BLE_GATTS_EVT_EXCHANGE_MTU_REQUEST", link,
           <<SdCall("sd_ble_gatts_exchange_mtu_reply", link, MAX_MTU_LENGTH,
                    err)>>)
    /\ pc' = IF assert_if(err) THEN "reset" ELSE pc
    /\ client_rx_mtu' = client_mtu
    /\ negotiated_mtu' = NegotiatedMtu(client_mtu)
    /\ drain' = [drain EXCEPT
                    !.ok = @ /\ NegotiatedMtu(client_mtu) = negotiated_mtu]
    /\ evt_pending' = TRUE
    /\ UNCHANGED <<rings, ble_handles, locals, rxHist, txHist, hvx_log, entry,
                   connects, budgets, txDiscarded, gap>>

\* case BLE_GATTS_EVT_EXCHANGE_MTU_REQUEST: the reply, assert_if, then the
\* assignment of negotiated_mtu
BLE_GATTS_EVT_EXCHANGE_MTU_REQUEST(client_mtu, err) ==
    /\ Running
    /\ LinkUp
    /\ dispatch' = Dispatch("BLE_GATTS_EVT_EXCHANGE_MTU_REQUEST", link,
           <<SdCall("sd_ble_gatts_exchange_mtu_reply", link, MAX_MTU_LENGTH,
                    err)>>)
    /\ IF assert_if(err)
       THEN /\ pc' = "reset"
            /\ UNCHANGED <<negotiated_mtu, client_rx_mtu, drain>>
       ELSE /\ pc' = pc
            /\ client_rx_mtu' = client_mtu
            /\ negotiated_mtu' = NegotiatedMtu(client_mtu)
            /\ drain' = [drain EXCEPT
                            !.ok = @ /\ NegotiatedMtu(client_mtu) = negotiated_mtu]
    /\ evt_pending' = TRUE
    /\ UNCHANGED <<rings, ble_handles, locals, rxHist, txHist, hvx_log, entry,
                   connects, budgets, txDiscarded, gap>>

\* case BLE_GATTS_EVT_WRITE: the loop; no call
BLE_GATTS_EVT_WRITE(len) ==
    /\ EvtWrite(len)
    /\ dispatch' = Dispatch("BLE_GATTS_EVT_WRITE", link, <<>>)

\* case BLE_GATTC_EVT_TIMEOUT
BLE_GATTC_EVT_TIMEOUT(err) ==
    /\ Running
    /\ LinkUp
    /\ ReplyArm("BLE_GATTC_EVT_TIMEOUT", "sd_ble_gap_disconnect",
             BLE_HCI_REMOTE_USER_TERMINATED_CONNECTION, err)

\* variant: the arm marks the connection as gone itself
BLE_GATTS_EVT_TIMEOUT_clear_handle(err) ==
    /\ Running
    /\ LinkUp
    /\ dispatch' = Dispatch("BLE_GATTS_EVT_TIMEOUT", link,
           <<SdCall("sd_ble_gap_disconnect", link,
                    BLE_HCI_REMOTE_USER_TERMINATED_CONNECTION, err)>>)
    /\ pc' = IF assert_if(err) THEN "reset" ELSE pc
    /\ ble_handles' = [ble_handles EXCEPT !.connection = BLE_CONN_HANDLE_INVALID]
    /\ evt_pending' = TRUE
    /\ UNCHANGED <<rings, negotiated_mtu, locals, rxHist, txHist, hvx_log,
                   entry, drain, connects, budgets, env>>

\* case BLE_GATTS_EVT_TIMEOUT
BLE_GATTS_EVT_TIMEOUT(err) ==
    /\ Running
    /\ LinkUp
    /\ ReplyArm("BLE_GATTS_EVT_TIMEOUT", "sd_ble_gap_disconnect",
             BLE_HCI_REMOTE_USER_TERMINATED_CONNECTION, err)

\* variant: the arm takes the event for a new connection and clears
\* negotiated_mtu
BLE_GATTS_EVT_SYS_ATTR_MISSING_clear_mtu(err) ==
    /\ Running
    /\ LinkUp
    /\ dispatch' = Dispatch("BLE_GATTS_EVT_SYS_ATTR_MISSING", link,
           <<SdCall("sd_ble_gatts_sys_attr_set", link, "NULL", err)>>)
    /\ pc' = IF assert_if(err) THEN "reset" ELSE pc
    /\ negotiated_mtu' = 0
    /\ evt_pending' = TRUE
    /\ UNCHANGED <<rings, ble_handles, locals, rxHist, txHist, hvx_log, entry,
                   drain, connects, budgets, env>>

\* case BLE_GATTS_EVT_SYS_ATTR_MISSING
BLE_GATTS_EVT_SYS_ATTR_MISSING(err) ==
    /\ Running
    /\ LinkUp
    /\ ReplyArm("BLE_GATTS_EVT_SYS_ATTR_MISSING", "sd_ble_gatts_sys_attr_set",
             "NULL", err)

\* variant: the request is accepted
BLE_GAP_EVT_SEC_PARAMS_REQUEST_accept(err) ==
    /\ Running
    /\ LinkUp
    /\ ReplyArm("BLE_GAP_EVT_SEC_PARAMS_REQUEST", "sd_ble_gap_sec_params_reply",
                0, err)

\* case BLE_GAP_EVT_SEC_PARAMS_REQUEST
BLE_GAP_EVT_SEC_PARAMS_REQUEST(err) ==
    /\ Running
    /\ LinkUp
    /\ ReplyArm("BLE_GAP_EVT_SEC_PARAMS_REQUEST", "sd_ble_gap_sec_params_reply",
             BLE_GAP_SEC_STATUS_PAIRING_NOT_SUPP, err)

\* default: "Ignore unused events"
EvtDefault ==
    /\ Running
    /\ dispatch' = Dispatch("default", link, <<>>)
    /\ evt_pending' = TRUE
    /\ UNCHANGED <<rings, conn, pc, locals, rxHist, txHist, hvx_log, entry,
                   drain, connects, budgets, env>>

EvtInit ==
    /\ Statics
    /\ \E b \in EvtBudgets : rxBudget = b[1] /\ txBudget = b[2]

EvtNext ==
    \/ (\E len \in 1..MaxLen : mp_hal_stdout_tx_strn(len))
          /\ dispatch' = NoDispatch /\ UNCHANGED mods
    \/ rx_chr_call /\ dispatch' = NoDispatch /\ UNCHANGED mods
    \/ rx_chr_while /\ dispatch' = NoDispatch /\ UNCHANGED mods
    \/ send_entry /\ dispatch' = NoDispatch /\ UNCHANGED mods
    \/ send_loop /\ dispatch' = NoDispatch /\ UNCHANGED mods
    \/ hvx_success /\ dispatch' = NoDispatch /\ UNCHANGED mods
    \/ hvx_not_connected /\ dispatch' = NoDispatch /\ UNCHANGED mods
    \/ hvx_resources /\ dispatch' = NoDispatch /\ UNCHANGED mods
    \/ hvx_other /\ dispatch' = NoDispatch /\ UNCHANGED mods
    \/ rx_chr_idle /\ dispatch' = NoDispatch /\ UNCHANGED mods
    \/ sd_app_evt_wait /\ dispatch' = NoDispatch /\ UNCHANGED mods
    \/ rx_chr_pop /\ dispatch' = NoDispatch /\ UNCHANGED mods
    \/ NVIC_SystemReset /\ dispatch' = NoDispatch /\ UNCHANGED mods
    \/ \E conn_handle \in ConnHandles, err \in SdResults :
          BLE_GAP_EVT_CONNECTED(conn_handle, err) /\ UNCHANGED mods
    \/ \E err \in SdResults :
          BLE_GAP_EVT_DISCONNECTED(err) /\ UNCHANGED mods
    \/ \E err \in SdResults :
          BLE_GAP_EVT_PHY_UPDATE_REQUEST(err) /\ UNCHANGED mods
    \/ \E client_mtu \in ClientRxMtus, err \in SdResults :
          BLE_GATTS_EVT_EXCHANGE_MTU_REQUEST(client_mtu, err) /\ UNCHANGED mods
    \/ \E len \in 1..MaxLen :
          BLE_GATTS_EVT_WRITE(len) /\ UNCHANGED mods
    \/ \E err \in SdResults :
          BLE_GATTC_EVT_TIMEOUT(err) /\ UNCHANGED mods
    \/ \E err \in SdResults :
          BLE_GATTS_EVT_TIMEOUT(err) /\ UNCHANGED mods
    \/ \E err \in SdResults :
          BLE_GATTS_EVT_SYS_ATTR_MISSING(err) /\ UNCHANGED mods
    \/ \E err \in SdResults :
          BLE_GAP_EVT_SEC_PARAMS_REQUEST(err) /\ UNCHANGED mods
    \/ EvtDefault /\ UNCHANGED mods

EvtSpec == EvtInit /\ [][EvtNext]_vars

\* client_rx_mtu is a uint16_t the peer chooses: the values around the ATT
\* header length and the ends of the range
SmallClientRxMtus == {0, 2, 3, 65535}

\* the short run with MTU requests that propose any 16-bit value
MtuNext ==
    \/ EvtNext
    \/ \E client_mtu \in SmallClientRxMtus, err \in SdResults :
          BLE_GATTS_EVT_EXCHANGE_MTU_REQUEST(client_mtu, err) /\ UNCHANGED mods

MtuSpec == EvtInit /\ [][MtuNext]_vars

\* the short run with a foreground that keeps executing: the processor runs
\* the next instruction of the console loop whenever there is one, and
\* sd_app_evt_wait returns when an event has been raised.  Events come when
\* the peer sends them; nothing makes them come.
LiveSpec == EvtInit /\ [][Next]_vars /\ WF_vars(Foreground /\ UNCHANGED <<dispatch, mods>>)

(***************************************************************************)
(* The machine modules: FPGA (machine_fpga.c), RTC (machine_rtc.c) and     *)
(* Flash (machine_flash.c).  Their methods are called by the console, one  *)
(* at a time; the done-pin and compare interrupts come at any point.  The  *)
(* transport is left at rest.                                              *)
(***************************************************************************)
\* everything of the transport but the position of the foreground
transport == <<rings, conn, locals, evt_pending, rxHist, txHist, hvx_log,
               entry, drain, connects, budgets, env, dispatch>>

\* mp_obj_t values FPGA.irq is called with
Handlers == {"handler_a", "handler_b"}

\* FPGA.run()
machine_fpga_run ==
    /\ pc = "console"
    /\ fpga_state' = "FPGA_CONFIGURING"
    /\ UNCHANGED <<done_pin_irq, done_pin, irq_requested, done_irq, rtc, flash,
                   pc, transport>>

\* FPGA.reset()
machine_fpga_reset ==
    /\ pc = "console"
    /\ fpga_state' = "FPGA_RESET"
    /\ UNCHANGED <<done_pin_irq, done_pin, irq_requested, done_irq, rtc, flash,
                   pc, transport>>

\* FPGA.irq(handler): "Set the callback function from the argument"
machine_fpga_irq(handler) ==
    /\ pc = "console"
    /\ done_pin_irq' = [done_pin_irq EXCEPT !.handler = handler]
    /\ irq_requested' = TRUE
    /\ UNCHANGED <<fpga_state, done_pin, done_irq, rtc, flash, pc, transport>>

\* FPGA.irq_disable()
machine_fpga_irq_disable ==
    /\ pc = "console"
    /\ done_pin_irq' = [done_pin_irq EXCEPT !.enabled = FALSE]
    /\ irq_requested' = FALSE
    /\ UNCHANGED <<fpga_state, done_pin, done_irq, rtc, flash, pc, transport>>

\* variant: a done-pin interrupt in reset starts the configuration state
fpga_done_pin_irq_handler_from_reset(level) ==
    /\ Running
    /\ done_pin' = level
    /\ IF fpga_state = "FPGA_RESET" \/ fpga_state = "FPGA_CONFIGURING"
       THEN /\ fpga_state' = IF level = 1 THEN "FPGA_RUNNING" ELSE fpga_state
            /\ done_irq' = [state |-> fpga_state, level |-> level,
                            called |-> FALSE, arg |-> 0]
       ELSE /\ UNCHANGED fpga_state
            /\ done_irq' = [state |-> fpga_state, level |-> level,
                            called |-> done_pin_irq.enabled,
                            arg |-> IF done_pin_irq.enabled THEN level ELSE 0]
    /\ UNCHANGED <<done_pin_irq, irq_requested, rtc, flash, pc, transport>>

\* fpga_done_pin_irq_handler: an edge of pin 16; level is what
\* nrf_gpio_pin_read(16) returns
fpga_done_pin_irq_handler(level) ==
    /\ Running
    /\ done_pin' = level
    /\ IF fpga_state = "FPGA_RESET"
       THEN /\ UNCHANGED fpga_state
            /\ done_irq' = [state |-> fpga_state, level |-> level,
                            called |-> FALSE, arg |-> 0]
       ELSE IF fpga_state = "FPGA_CONFIGURING"
       THEN /\ fpga_state' = IF level = 1 THEN "FPGA_RUNNING" ELSE fpga_state
            /\ done_irq' = [state |-> fpga_state, level |-> level,
                            called |-> FALSE, arg |-> 0]
       ELSE /\ UNCHANGED fpga_state
            /\ done_irq' = [state |-> fpga_state, level |-> level,
                            called |-> done_pin_irq.enabled,
                            arg |-> IF done_pin_irq.enabled THEN level ELSE 0]
    /\ UNCHANGED <<done_pin_irq, irq_requested, rtc, flash, pc, transport>>

\* RTC.sleep_ms(ms) up to nrfx_rtc_cc_set(&rtc_instance, 1, wake_time, true)
machine_rtc_sleep_ms ==
    /\ pc = "console"
    /\ cc1' = TRUE
    /\ pc' = "sleep_set"
    /\ UNCHANGED <<waiting, fpga, flash, transport>>

\* "Set the waiting flag to true"
sleep_ms_set_waiting ==
    /\ pc = "sleep_set"
    /\ waiting' = TRUE
    /\ pc' = "sleep_loop"
    /\ UNCHANGED <<cc1, fpga, flash, transport>>

\* while (waiting) { sd_power_mode_set; __WFI(); }: the test that ends it
sleep_ms_return ==
    /\ pc = "sleep_loop"
    /\ ~waiting
    /\ pc' = "console"
    /\ UNCHANGED <<rtc, fpga, flash, transport>>

\* rtc_irq_handler, case NRFX_RTC_INT_COMPARE1: the counter has reached the
\* wake time of the enabled compare channel
rtc_irq_handler ==
    /\ Running
    /\ cc1
    /\ waiting' = FALSE
    /\ cc1' = FALSE
    /\ UNCHANGED <<fpga, flash, pc, transport>>

\* nrfx_err_t: NRFX_ERROR_BASE_NUM is 0x0BAD0000
NRFX_SUCCESS == 195887104
NRFX_ERROR_BUSY == 195887115

\* results of nrfx_spim_xfer in spim_tx_rx
SpimResults == {NRFX_SUCCESS, NRFX_ERROR_BUSY}

\* first byte of each command sequence sent to the flash
status_reg == 5
wake_seq == 171
reset_en_cmd == 102
reset_cmd == 153
sleep_cmd == 185
write_enable_cmd == 6
chip_erase_cmd == 96
erase_block == 32
read_cmd == 3
write_buff == 2

\* polls of the status register until the flash is no longer busy
MaxPolls == 2

\* the byte at (uint8_t *)&reset_cmd + 1: whatever lies behind reset_cmd
StackBytes == {0, reset_cmd}

\* machine_flash_wake as the caller runs it: its three transfers if the
\* flash is marked asleep
WakeTransfers(byte) ==
    IF flash_asleep THEN <<wake_seq, reset_en_cmd, byte>> ELSE <<>>

\* the transfers of a call in order, each with the value flash_asleep has
\* when it is sent: machine_flash_wake clears the flag after its last one
Plan(wake, ops) ==
    [i \in 1..(Len(wake) + Len(ops)) |->
        IF i <= Len(wake)
        THEN [cmd |-> wake[i], asleep |-> flash_asleep]
        ELSE [cmd |-> ops[i - Len(wake)],
              asleep |-> IF Len(wake) > 0 THEN FALSE ELSE flash_asleep]]

\* the transfers made when the at-th returns err and the others succeed:
\* spim_tx_rx hands each result to assert_if
Made(plan, at, err) ==
    [i \in 1..(IF assert_if(err) THEN at ELSE Len(plan)) |->
        [cmd |-> plan[i].cmd, asleep |-> plan[i].asleep,
         err |-> IF i = at THEN err ELSE NRFX_SUCCESS]]

\* flash_busy() until it returns false: n reads of the status register
Polls(n) == [i \in 1..n |-> status_reg]

\* the command sequences of Flash.erase / read / write after the wake, up
\* to the return or the exception
FlashOps(fn, args, n) ==
    IF fn = "erase" THEN
        IF args = "chip" THEN <<write_enable_cmd, chip_erase_cmd>> \o Polls(n)
        ELSE IF args = "block" THEN <<write_enable_cmd, erase_block>> \o Polls(n)
        ELSE <<write_enable_cmd>>
    ELSE IF fn = "read" THEN
        IF args = "page" THEN <<read_cmd>> ELSE <<>>
    ELSE
        IF args = "page" THEN <<write_enable_cmd, write_buff>>
        ELSE <<write_enable_cmd>>

\* arguments of the calls: erase with no argument, a block up to 1023 or a
\* larger one; read and write with a page and a buffer of at most 256
\* bytes, with a page that is no integer, or with a longer buffer
FlashArgs(fn) ==
    IF fn = "erase" THEN {"chip", "block", "block_over_1023"}
    ELSE {"page", "page_not_int", "buffer_over_256"}

\* Flash.sleep()
machine_flash_sleep(err) ==
    /\ pc = "console"
    /\ flash_call' = [fn |-> "sleep", args |-> "none",
                      xfers |-> <<[cmd |-> sleep_cmd, asleep |-> flash_asleep,
                                   err |-> err]>>]
    /\ IF assert_if(err)
       THEN pc' = "reset" /\ UNCHANGED flash_asleep
       ELSE pc' = pc /\ flash_asleep' = TRUE
    /\ UNCHANGED <<fpga, rtc, transport>>

\* Flash.read / Flash.write with a buffer of more than 256 bytes: the
\* ValueError is raised before anything is sent
machine_flash_raise(fn) ==
    /\ pc = "console"
    /\ fn \in {"read", "write"}
    /\ flash_call' = [fn |-> fn, args |-> "buffer_over_256", xfers |-> <<>>]
    /\ UNCHANGED <<flash_asleep, fpga, rtc, pc, transport>>

\* Flash.erase / Flash.read / Flash.write from "If flash is asleep, wake it
\* up first" on: the wake, then the command sequence
machine_flash(fn, args, n, byte, at, err) ==
    /\ pc = "console"
    /\ fn \in {"erase", "read", "write"}
    /\ args \in FlashArgs(fn) \ {"buffer_over_256"}
    /\ LET wake == WakeTransfers(byte)
           plan == Plan(wake, FlashOps(fn, args, n))
       IN /\ \/ at \in 1..Len(plan)
             \/ Len(plan) = 0 /\ at = 1 /\ err = NRFX_SUCCESS
          /\ n = 1 \/ (fn = "erase" /\ args # "block_over_1023")
          /\ byte = reset_cmd \/ flash_asleep
          /\ flash_call' = [fn |-> fn, args |-> args,
                            xfers |-> Made(plan, at, err)]
          /\ pc' = IF assert_if(err) THEN "reset" ELSE pc
          /\ flash_asleep' = IF Len(wake) > 0 /\ (~assert_if(err) \/ at > Len(wake))
                             THEN FALSE ELSE flash_asleep
    /\ UNCHANGED <<fpga, rtc, transport>>

\* NVIC_SystemReset with the statics of the modules
ModSystemReset ==
    /\ NVIC_SystemReset
    /\ dispatch' = NoDispatch
    /\ fpga_state' = "FPGA_RESET"
    /\ done_pin_irq' = [enabled |-> FALSE, handler |-> "MP_OBJ_NULL"]
    /\ done_pin' = 0
    /\ irq_requested' = FALSE
    /\ done_irq' = NoDoneIrq
    /\ waiting' = FALSE
    /\ cc1' = FALSE
    /\ flash_asleep' = TRUE
    /\ flash_call' = NoFlashCall

ModInit ==
    /\ Statics
    /\ rxBudget = 0
    /\ txBudget = 0

ModNext ==
    \/ machine_fpga_run
    \/ machine_fpga_reset
    \/ \E handler \in Handlers : machine_fpga_irq(handler)
    \/ machine_fpga_irq_disable
    \/ \E level \in {0, 1} : fpga_done_pin_irq_handler(level)
    \/ machine_rtc_sleep_ms
    \/ sleep_ms_set_waiting
    \/ sleep_ms_return
    \/ rtc_irq_handler
    \/ \E err \in SpimResults : machine_flash_sleep(err)
    \/ \E fn \in {"read", "write"} : machine_flash_raise(fn)
    \/ \E fn \in {"erase", "read", "write"} :
          \E args \in FlashArgs(fn), n \in 1..MaxPolls, byte \in StackBytes,
             at \in 1..(5 + MaxPolls), err \in SpimResults :
             machine_flash(fn, args, n, byte, at, err)
    \/ ModSystemReset

ModSpec == ModInit /\ [][ModNext]_vars

\* The foreground is never held up for ever between two statements of
\* RTC.sleep_ms, and the counter reaches the wake time of an enabled
\* compare channel.
ModLiveSpec ==
    /\ ModInit
    /\ [][ModNext]_vars
    /\ WF_vars(sleep_ms_set_waiting)
    /\ WF_vars(sleep_ms_return)
    /\ WF_vars(rtc_irq_handler)

(***************************************************************************)
(* Properties.                                                             *)
(***************************************************************************)
IsPrefix(s, t) == Len(s) <= Len(t) /\ SubSeq(t, 1, Len(s)) = s
IsSuffix(s, t) == Len(s) <= Len(t) /\ SubSeq(t, Len(t) - Len(s) + 1, Len(t)) = s
NoDup(s) == \A i, j \in 1..Len(s) : i # j => s[i] # s[j]

RECURSIVE IsSubseq(_, _)
IsSubseq(s, t) ==
    IF s = <<>> THEN TRUE
    ELSE IF t = <<>> THEN FALSE
    ELSE IF Head(s) = Head(t) THEN IsSubseq(Tail(s), Tail(t))
    ELSE IsSubseq(s, Tail(t))

RECURSIVE Concat(_)
Concat(chunks) ==
    IF chunks = <<>> THEN <<>> ELSE Head(chunks) \o Concat(Tail(chunks))

\* C1: FIFO round trip.  Whenever a ring is empty again, the bytes popped
\* from it since startup are exactly the bytes pushed into it, in the order
\* pushed: mp_hal_stdin_rx_chr has returned what the write events stored
\* into rx, and the sender has taken out of tx what mp_hal_stdout_tx_strn
\* stored, wherever head and tail stand, wrapped or not.
FifoRoundTrip ==
    /\ rx.head = rx.tail => rxReturned = rxAccepted
    /\ tx.head = tx.tail => txPopped = txAccepted

\* the outbound ring is empty again after its indices wrapped back to 0 and
\* the first cell was stored to and popped a second time
FifoRoundTripWitness ==
    /\ tx.head = tx.tail
    /\ Len(txPopped) > RING_BUFFER_LENGTH

\* C2: inbound order under interleaving.  In every state, whatever step of
\* mp_hal_stdin_rx_chr the write events interrupted, the bytes accepted into
\* rx are the bytes already returned followed by the live bytes of rx: none
\* lost, none overwritten before it is read, none returned twice.
InboundOrder == rxAccepted = rxReturned \o Live(rx)

\* a byte arrived between the idle check and the wait, after earlier reads
InboundOrderWitness ==
    /\ pc = "evt_wait"
    /\ rx.head # rx.tail
    /\ Len(rxReturned) >= 2
    /\ rx.head < rx.tail

\* C3: outbound order.  The bytes of the successful transmissions, in the
\* order transmitted, are a subsequence of the bytes accepted by
\* mp_hal_stdout_tx_strn, and no byte is transmitted twice.
OutboundOrder == IsSubseq(txSent, txAccepted) /\ NoDup(txSent)

\* a chunk was discarded while disconnected and later chunks were transmitted
OutboundOrderWitness ==
    /\ Len(txSent) >= 2
    /\ ~IsPrefix(txSent, txAccepted)

\* C4: congestion retry.  Within one sender invocation every transmit
\* attempt carries the chunk popped from tx (same bytes, same length), every
\* attempt before the last returned NRF_ERROR_RESOURCES, a congestion result
\* leaves the sender at the transmit call, the tail stands one chunk length
\* past where the invocation found it, the head is where it was, and after
\* success the chunk is the end of the transmitted bytes.
CongestionRetry ==
    hvx_log # <<>> =>
        LET n == Len(hvx_log)
            chunk == Slice(tx.buffer, entry.tail, tx.tail)
        IN /\ \A i \in 1..n : /\ hvx_log[i].data = chunk
                              /\ hvx_log[i].len = Len(chunk)
           /\ \A i \in 1..(n - 1) : hvx_log[i].err = NRF_ERROR_RESOURCES
           /\ hvx_log[n].err = NRF_ERROR_RESOURCES => pc = "send_hvx"
           /\ hvx_log[n].err = NRF_SUCCESS =>
                  /\ pc = "rx_idle"
                  /\ IsSuffix(chunk, txSent)
           /\ tx.tail = (entry.tail + hvx_log[1].len) % RING_BUFFER_LENGTH
           /\ tx.head = entry.head
           /\ Live(tx) = SubSeq(txAccepted, Len(txPopped) + 1, Len(txAccepted))

\* success on the third attempt of a chunk of two bytes or more
CongestionRetryWitness ==
    /\ pc = "rx_idle"
    /\ Len(hvx_log) = MaxRetries + 1
    /\ hvx_log[Len(hvx_log)].err = NRF_SUCCESS
    /\ hvx_log[1].len >= 2

\* C5: after a disconnect event the negotiated payload is the value it has
\* before any negotiation.
PayloadResetOnDisconnect == ~Connected => negotiated_mtu = 0

\* C6: every chunk handed to the transport has length at least 1 and at most
\* the negotiated payload.
ChunkWithinPayload ==
    pc = "send_hvx" => out_len >= 1 /\ out_len <= negotiated_mtu

\* sizes the claim states for L bytes and payload P: P, P, ..., then L mod P
CeilDiv(a, b) == (a + b - 1) \div b
ChunkSize(L, P, i) == IF i * P <= L THEN P ELSE L % P

\* C7: chunking.  While the negotiated payload P >= 1 is stable and every
\* transmit succeeds, the sender invocations of one mp_hal_stdin_rx_chr call
\* that found L bytes in tx each transmit once, the i-th chunk has the size
\* the claim states, the chunks concatenate to the first bytes of the L, and
\* once tx is empty there have been ceil(L/P) transmissions.
Chunking ==
    (drain.ok /\ drain.mtu >= 1) =>
        LET L == Len(drain.bytes)
            P == drain.mtu
            k == Len(drain.chunks)
            busy == pc \in {"send_loop", "send_hvx"}
        IN /\ k <= CeilDiv(L, P)
           /\ \A i \in 1..k : Len(drain.chunks[i]) = ChunkSize(L, P, i)
           /\ Concat(drain.chunks) = SubSeq(drain.bytes, 1, Min(L, k * P))
           /\ drain.calls = IF busy THEN k + 1 ELSE k
           /\ (tx.head = tx.tail /\ ~busy) => k = CeilDiv(L, P)

\* three bytes went out as chunks of 2 and 1
ChunkingWitness ==
    /\ drain.ok
    /\ drain.mtu = 2
    /\ Len(drain.bytes) = 3
    /\ Len(drain.chunks) = 2
    /\ Len(drain.chunks[2]) = 1
    /\ tx.head = tx.tail

\* C8: inbound drop policy.  A write event of len bytes that finds f free
\* slots in rx appends the first min(len, f) bytes of its payload, in order,
\* to the live bytes and leaves the tail alone.
InboundDropPolicy ==
    [][(pc # "reset" /\ rxArrived' # rxArrived) =>
          LET len == rxArrived' - rxArrived
              data == Payload(rxArrived, len)
          IN /\ Live(rx') = Live(rx) \o SubSeq(data, 1, Min(len, Free(rx)))
             /\ rx'.tail = rx.tail]_vars

\* with no reads, events filled rx and the rest of the bytes was dropped
InboundDropPolicyWitness ==
    /\ rxReturned = <<>>
    /\ Len(rxAccepted) = RING_BUFFER_LENGTH - 1
    /\ rxArrived = MaxBytes
    /\ Live(rx) = Payload(0, RING_BUFFER_LENGTH - 1)

\* C9: a push on a full ring stores nothing.  A write event that finds rx
\* full and a mp_hal_stdout_tx_strn call that finds tx full leave the ring
\* (buffer, head and tail) as it was.
PushOnFullStoresNothing ==
    [][pc # "reset" =>
          /\ (IsFull(rx) /\ rxArrived' # rxArrived) => rx' = rx
          /\ (IsFull(tx) /\ txWritten' # txWritten) => tx' = tx]_vars

\* tx is full with wrapped indices and written bytes were dropped
PushOnFullStoresNothingWitness ==
    /\ IsFull(tx)
    /\ tx.head < tx.tail
    /\ txWritten = MaxBytes
    /\ Len(txAccepted) < txWritten

\* C10: mp_hal_stdin_rx_chr on an empty rx.  A step that moves the inbound
\* tail or returns a byte starts with rx not empty, moves the tail by one
\* (mod N), leaves the head alone and returns the byte at the old tail; and
\* the foreground is past the wait loop only while rx is not empty.
ReadByteOnEmpty ==
    [][pc # "reset" =>
          /\ (rx'.tail # rx.tail \/ rxReturned' # rxReturned) =>
                /\ rx.head # rx.tail
                /\ rx'.tail = (rx.tail + 1) % RING_BUFFER_LENGTH
                /\ rx'.head = rx.head
                /\ rxReturned' = Append(rxReturned, rx.buffer[rx.tail])
          /\ pc' = "rx_pop" => rx.head # rx.tail]_vars

\* mp_hal_stdin_rx_chr waits on an empty rx whose tail has moved
ReadByteOnEmptyWitness ==
    /\ pc = "evt_wait"
    /\ rx.head = rx.tail
    /\ rx.tail # 0
    /\ rxReturned # <<>>
\* C11: the sender on an empty tx is a no-op.  The ble_send_pending_data
\* step that finds tx.head = tx.tail returns at once: it makes no transmit
\* attempt (hvx_log stays empty, nothing popped, nothing sent), so it does not
\* reach the delay of the congestion retry, and tx, the connection handle and
\* negotiated_mtu are as before.
SenderNoOpOnEmpty ==
    [][(pc = "send_entry" /\ pc' # pc /\ tx.head = tx.tail) =>
          /\ pc' = "rx_idle"
          /\ hvx_log' = <<>>
          /\ tx' = tx
          /\ ble_handles' = ble_handles
          /\ negotiated_mtu' = negotiated_mtu
          /\ txPopped' = txPopped
          /\ txSent' = txSent]_vars

\* the sender returned without an attempt on a tx that was drained before,
\* while a peer is connected
SenderNoOpOnEmptyWitness ==
    /\ pc = "rx_idle"
    /\ hvx_log = <<>>
    /\ tx.head = tx.tail
    /\ tx.head # 0
    /\ Connected

\* bytes a ring holds by its histories: stored and not yet taken out
Held(stored, taken) == Len(stored) - Len(taken)

\* C12: ring-buffer invariant.  For rx and tx: head and tail are in 0..N-1;
\* the number of bytes stored and not yet taken out is the distance from tail
\* to head, so the ring holds no byte exactly when head = tail, a push never
\* leaves head = tail, and at most N-1 bytes are live.
RingInvariant ==
    /\ \A ring \in {rx, tx} :
          /\ ring.head \in 0..(RING_BUFFER_LENGTH - 1)
          /\ ring.tail \in 0..(RING_BUFFER_LENGTH - 1)
    /\ Held(rxAccepted, rxReturned) = Count(rx)
    /\ Held(txAccepted, txPopped) = Count(tx)
    /\ Held(rxAccepted, rxReturned) = 0 <=> rx.head = rx.tail
    /\ Held(txAccepted, txPopped) = 0 <=> tx.head = tx.tail
    /\ Held(rxAccepted, rxReturned) <= RING_BUFFER_LENGTH - 1
    /\ Held(txAccepted, txPopped) <= RING_BUFFER_LENGTH - 1

\* rx is full with wrapped indices: N-1 live bytes and head # tail
RingInvariantWitness ==
    /\ IsFull(rx)
    /\ rx.head < rx.tail
    /\ Held(rxAccepted, rxReturned) = RING_BUFFER_LENGTH - 1
    /\ rxArrived = MaxBytes

\* C13: mp_hal_stdout_tx_strn is non-blocking and lossy on overflow.  A call
\* with len bytes that finds f free slots in tx appends the first min(len, f)
\* bytes of str, in order, to the live bytes and stores nothing else, leaves
\* the tail alone, makes no transmit attempt, does not wait (the event latch
\* is untouched) and has returned to the console when the step ends.
OutboundDropPolicy ==
    [][(pc # "reset" /\ txWritten' # txWritten) =>
          LET len == txWritten' - txWritten
              str == Payload(txWritten, len)
              kept == SubSeq(str, 1, Min(len, Free(tx)))
          IN /\ Live(tx') = Live(tx) \o kept
             /\ txAccepted' = txAccepted \o kept
             /\ tx'.tail = tx.tail
             /\ hvx_log' = hvx_log
             /\ txSent' = txSent
             /\ txPopped' = txPopped
             /\ evt_pending' = evt_pending
             /\ pc = "console" /\ pc' = "console"]_vars

\* with no sender run, writes filled tx and the rest of the bytes was dropped
OutboundDropPolicyWitness ==
    /\ txPopped = <<>>
    /\ Len(txAccepted) = RING_BUFFER_LENGTH - 1
    /\ txWritten = MaxBytes
    /\ Live(tx) = Payload(0, RING_BUFFER_LENGTH - 1)
    /\ pc = "console"
\* results of the not-connected class, and the results the sender tells apart
NotConnectedClass == {NRF_ERROR_INVALID_STATE, BLE_ERROR_INVALID_CONN_HANDLE}
KnownResults == {NRF_SUCCESS, NRF_ERROR_RESOURCES} \cup NotConnectedClass
Range(s) == {s[i] : i \in 1..Len(s)}

\* C14: a not-connected result ends the sender.  When the latest transmit
\* attempt returned NRF_ERROR_INVALID_STATE or BLE_ERROR_INVALID_CONN_HANDLE
\* the sender has returned (no further attempt, no reset), the tail stands one
\* chunk length past where the invocation found it, and the chunk is
\* discarded: a discarded byte was popped from tx and is never among the
\* transmitted bytes, in tx again, or in a later chunk.
NotConnectedDiscards ==
    /\ hvx_log # <<>> =>
          LET n == Len(hvx_log) IN
          /\ \A i \in 1..(n - 1) : hvx_log[i].err \notin NotConnectedClass
          /\ hvx_log[n].err \in NotConnectedClass =>
                /\ pc = "rx_idle"
                /\ tx.tail = (entry.tail + hvx_log[n].len) % RING_BUFFER_LENGTH
                /\ IsSuffix(hvx_log[n].data, txDiscarded)
                /\ hvx_log[n].len >= 1
    /\ Range(txDiscarded) \cap Range(txSent) = {}
    /\ Range(txDiscarded) \cap Range(Live(tx)) = {}
    /\ Range(txDiscarded) \cap Range(out_buffer) = {}
    /\ IsSubseq(txDiscarded, txPopped)

\* a chunk was discarded, and after it a later byte was transmitted and tx
\* ran empty
NotConnectedDiscardsWitness ==
    /\ txDiscarded # <<>>
    /\ txSent # <<>>
    /\ txSent[Len(txSent)] > txDiscarded[Len(txDiscarded)]
    /\ tx.head = tx.tail

\* C15: a disconnect event during the congestion retry loop ends the
\* invocation.  All attempts of one sender invocation are made on one
\* connection: an attempt that follows a disconnect event (whether or not a
\* connect event came after it) returns a not-connected result, so the chunk
\* is not transmitted on a later connection.
DisconnectStopsRetry ==
    \A i \in 2..Len(hvx_log) :
        hvx_log[i].epoch # hvx_log[i - 1].epoch =>
            hvx_log[i].err \in NotConnectedClass

\* C16: any other result is fatal.  A transmit attempt whose result is not
\* success, not-connected or congestion takes the foreground to the reset
\* (assert_if), nothing else does, and the only step from there is the system
\* reset, which restarts the program from its initial state.
FatalOnOtherError ==
    [][/\ (pc = "send_hvx" /\ hvx_log' # hvx_log
              /\ hvx_log'[Len(hvx_log')].err \notin KnownResults) =>
             pc' = "reset"
       /\ (pc' = "reset" /\ pc # "reset") =>
             /\ pc = "send_hvx"
             /\ hvx_log'[Len(hvx_log')].err \notin KnownResults
             /\ hvx_log'[Len(hvx_log')].err % 65536 # 0
       /\ pc = "reset" =>
             /\ pc' = "console"
             /\ rx' = RingInit /\ tx' = RingInit
             /\ ble_handles'.connection = BLE_CONN_HANDLE_INVALID
             /\ negotiated_mtu' = 0
             /\ out_len' = 0
             /\ hvx_log' = <<>>]_vars

\* the foreground stands at the reset after NRF_ERROR_INVALID_PARAM, with
\* earlier bytes transmitted
FatalOnOtherErrorWitness ==
    /\ pc = "reset"
    /\ hvx_log # <<>>
    /\ hvx_log[Len(hvx_log)].err = NRF_ERROR_INVALID_PARAM
    /\ txSent # <<>>

\* C17: capability negotiation.  Once an MTU request has been processed, and
\* until the next one is, negotiated_mtu is min(c, MAX_MTU_LENGTH) - 3 for the
\* client_rx_mtu c >= 23 of the latest request, whatever else has run since.
CapabilityNegotiation ==
    client_rx_mtu >= 23 =>
        negotiated_mtu = Min(client_rx_mtu, MAX_MTU_LENGTH) - 3

\* the peer proposed 247: the payload is 125, and still is after bytes were
\* transmitted and the peer disconnected
CapabilityNegotiationWitness ==
    /\ client_rx_mtu = 247
    /\ negotiated_mtu = 125
    /\ txSent # <<>>
    /\ ~LinkUp

\* C18 as stated: whenever mp_hal_stdin_rx_chr is at the wait, both rings are
\* empty.
WaitOnlyWhenBothEmpty ==
    pc = "evt_wait" => tx.head = tx.tail /\ rx.head = rx.tail

\* C18, amended: mp_hal_stdin_rx_chr goes to the wait only from a check that
\* found both rings empty; at the wait tx is empty, and rx holds bytes only if
\* an event was raised since the last wait returned, in which case the wait
\* returns without suspending.
WaitAfterEmptyCheck ==
    [][/\ (pc' = "evt_wait" /\ pc # "evt_wait") =>
             tx.head = tx.tail /\ rx.head = rx.tail
       /\ pc' = "evt_wait" =>
             /\ tx'.head = tx'.tail
             /\ rx'.head # rx'.tail => evt_pending']_vars

\* a byte was stored between the check and the wait: the latch is set
WaitAfterEmptyCheckWitness ==
    /\ pc = "evt_wait"
    /\ rx.head # rx.tail
    /\ evt_pending
    /\ tx.head = tx.tail
    /\ txSent # <<>>

\* C19: the connection handle tracks the lifecycle.  ble_handles.connection
\* is the conn_handle of the latest connect event while no disconnect event
\* has followed it, and BLE_CONN_HANDLE_INVALID otherwise, at startup too; it
\* is one handle of a peer or the invalid value.
ConnectionTracksLifecycle ==
    /\ ble_handles.connection = link
    /\ ble_handles.connection \in ConnHandles \cup {BLE_CONN_HANDLE_INVALID}
    /\ connects = 0 => ble_handles.connection = BLE_CONN_HANDLE_INVALID

\* the handle of a second connection is held, after a disconnect
ConnectionTracksLifecycleWitness ==
    /\ connects = MaxConnects
    /\ ble_handles.connection \in ConnHandles
    /\ adv_starts = MaxConnects

TimeoutEvents == {"BLE_GATTC_EVT_TIMEOUT", "BLE_GATTS_EVT_TIMEOUT"}

\* C21: a timeout event of either role makes the handler request one
\* disconnect, with reason "remote user terminated connection", of the peer
\* the event names; that step leaves the connection handle, negotiated_mtu
\* and both rings as they were, and the handle becomes invalid only in the
\* step that handles the disconnect event (or in the restart after a reset).
TimeoutRequestsDisconnect ==
    [][/\ dispatch'.evt_id \in TimeoutEvents =>
            /\ Len(dispatch'.calls) = 1
            /\ dispatch'.calls[1].fn = "sd_ble_gap_disconnect"
            /\ dispatch'.calls[1].conn_handle = dispatch'.conn_handle
            /\ dispatch'.calls[1].arg = BLE_HCI_REMOTE_USER_TERMINATED_CONNECTION
            /\ dispatch'.conn_handle = link
            /\ UNCHANGED <<ble_handles, negotiated_mtu, rings, link>>
       /\ (Connected /\ ~Connected' /\ pc # "reset") =>
            dispatch'.evt_id = "BLE_GAP_EVT_DISCONNECTED"]_vars

\* a timeout arm has just asked for the disconnect and the handle is still set
TimeoutRequestsDisconnectWitness ==
    /\ dispatch.evt_id \in TimeoutEvents
    /\ dispatch.calls[1].err = NRF_SUCCESS
    /\ Connected
    /\ tx.head # tx.tail


\* mp_hal_stdin_rx_chr is executing
InReadByte == pc \in {"rx_wait", "send_entry", "send_loop", "send_hvx",
                      "rx_idle", "evt_wait", "rx_pop"}

\* byte b is the oldest byte of rx while mp_hal_stdin_rx_chr is executing
AwaitedByte(b) == InReadByte /\ rx.head # rx.tail /\ rx.buffer[rx.tail] = b

DrainWithinPayload ==
    /\ pc = "evt_wait" => tx.head = tx.tail
    /\ pc \in {"send_loop", "send_hvx"} =>
           Span(entry.tail, tx.tail) <= negotiated_mtu

\* the progress C23 states: while mp_hal_stdin_rx_chr waits with rx empty,
\* tx is eventually empty, unless a byte arrives or the program resets
DrainProgress ==
    (InReadByte /\ rx.head = rx.tail /\ tx.head # tx.tail)
        ~> (tx.head = tx.tail \/ rx.head # rx.tail \/ pc = "reset")


\* ble_send_pending_data is executing
InSender == pc \in {"send_entry", "send_loop", "send_hvx"}

\* C24: each ring index has one writer.  Leaving aside the restart after a
\* reset, rx.head changes only in the BLE_GATTS_EVT_WRITE arm, rx.tail only
\* where mp_hal_stdin_rx_chr takes its character, tx.head only in
\* mp_hal_stdout_tx_strn and tx.tail only in the sender's loop; the sender is
\* entered only by the foreground, from the loop of mp_hal_stdin_rx_chr and
\* never from within itself, and no event arm moves the foreground (other
\* than to the reset) or touches the sender's locals.
SingleWriter ==
    [][pc # "reset" =>
         /\ rx'.head # rx.head => dispatch'.evt_id = "BLE_GATTS_EVT_WRITE"
         /\ rx'.tail # rx.tail => dispatch' = NoDispatch /\ pc = "rx_pop"
         /\ tx'.head # tx.head =>
                dispatch' = NoDispatch /\ pc = "console" /\ pc' = "console"
         /\ tx'.tail # tx.tail => dispatch' = NoDispatch /\ pc = "send_loop"
         /\ (pc' = "send_entry" /\ pc # "send_entry") =>
                dispatch' = NoDispatch /\ pc = "rx_wait"
         /\ (InSender' /\ ~InSender) => pc' = "send_entry"
         /\ dispatch' # NoDispatch =>
                pc' \in {pc, "reset"} /\ UNCHANGED <<locals, entry>>]_vars

\* both rings have been written and read, and the sender is at work again
SingleWriterWitness ==
    /\ rx.head # 0
    /\ rx.tail # 0
    /\ tx.head # 0
    /\ tx.tail # 0
    /\ InSender


\* C25: the connection state is written in event context only.  Leaving
\* aside the restart after a reset, no step of mp_hal_stdout_tx_strn,
\* mp_hal_stdin_rx_chr or the sender changes ble_handles.connection or
\* negotiated_mtu; the handle changes only in the connected and disconnected
\* arms, negotiated_mtu only in the MTU exchange arm.
ConnStateEventOnly ==
    [][pc # "reset" =>
         /\ dispatch' = NoDispatch => UNCHANGED <<ble_handles, negotiated_mtu>>
         /\ ble_handles' # ble_handles =>
                dispatch'.evt_id \in {"BLE_GAP_EVT_CONNECTED",
                                      "BLE_GAP_EVT_DISCONNECTED"}
         /\ negotiated_mtu' # negotiated_mtu =>
                dispatch'.evt_id = "BLE_GATTS_EVT_EXCHANGE_MTU_REQUEST"]_vars

\* the sender has met a not-connected result on a connection with a
\* negotiated payload, and both are still as the event arms left them
ConnStateEventOnlyWitness ==
    /\ pc = "rx_idle"
    /\ Len(hvx_log) > 0
    /\ hvx_log[Len(hvx_log)].err = NRF_ERROR_INVALID_STATE
    /\ Connected
    /\ negotiated_mtu # 0


NoEffectEvents == {"default", "BLE_GAP_EVT_PHY_UPDATE_REQUEST",
                   "BLE_GATTS_EVT_SYS_ATTR_MISSING",
                   "BLE_GAP_EVT_SEC_PARAMS_REQUEST"}

\* C26: an event the handler does not recognise, a PHY update request, a
\* system-attributes-missing event and a pairing request leave the
\* connection handle, negotiated_mtu and both rings unchanged.
NoEffectArms ==
    [][dispatch'.evt_id \in NoEffectEvents =>
           UNCHANGED <<ble_handles, negotiated_mtu, rx, tx>>]_vars

\* such an arm has run on a connection with a negotiated payload and bytes
\* in both rings
NoEffectArmsWitness ==
    /\ dispatch.evt_id \in NoEffectEvents
    /\ Connected
    /\ negotiated_mtu # 0
    /\ rx.head # rx.tail
    /\ tx.head # tx.tail


\* C27: every pairing request is answered, in the arm that handles it, by
\* exactly one sd_ble_gap_sec_params_reply to the requesting peer with
\* status "pairing not supported"; no request is accepted.
PairingRefused ==
    dispatch.evt_id = "BLE_GAP_EVT_SEC_PARAMS_REQUEST" =>
        /\ Len(dispatch.calls) = 1
        /\ dispatch.calls[1].fn = "sd_ble_gap_sec_params_reply"
        /\ dispatch.calls[1].conn_handle = dispatch.conn_handle
        /\ dispatch.calls[1].arg = BLE_GAP_SEC_STATUS_PAIRING_NOT_SUPP

\* a pairing request has been refused while the foreground was sending
PairingRefusedWitness ==
    /\ dispatch.evt_id = "BLE_GAP_EVT_SEC_PARAMS_REQUEST"
    /\ dispatch.calls[1].err = NRF_SUCCESS
    /\ pc = "send_hvx"

\* C28: the reply to an MTU request carries MAX_MTU_LENGTH whatever the
\* peer proposed, and is made before negotiated_mtu is assigned: when the
\* reply fails the program goes to the reset with negotiated_mtu as it was,
\* otherwise negotiated_mtu is computed from the peer's value.
MtuReplyFirst ==
    [][dispatch'.evt_id = "BLE_GATTS_EVT_EXCHANGE_MTU_REQUEST" =>
         /\ Len(dispatch'.calls) = 1
         /\ dispatch'.calls[1].fn = "sd_ble_gatts_exchange_mtu_reply"
         /\ dispatch'.calls[1].conn_handle = dispatch'.conn_handle
         /\ dispatch'.calls[1].arg = MAX_MTU_LENGTH
         /\ IF assert_if(dispatch'.calls[1].err)
            THEN pc' = "reset" /\ negotiated_mtu' = negotiated_mtu
            ELSE /\ pc' = pc
                 /\ negotiated_mtu' = NegotiatedMtu(client_rx_mtu')]_vars

\* the peer proposed more than MAX_MTU_LENGTH and was answered with it
MtuReplyFirstWitness ==
    /\ dispatch.evt_id = "BLE_GATTS_EVT_EXCHANGE_MTU_REQUEST"
    /\ dispatch.calls[1].err = NRF_SUCCESS
    /\ client_rx_mtu > MAX_MTU_LENGTH
    /\ negotiated_mtu = MAX_MTU_LENGTH - 3

\* C29: the connected arm records the handle of the event and makes one
\* sd_ble_gap_conn_param_update call for that peer, after the handle is
\* recorded (it is recorded also when the call fails); a result other than
\* success takes the program to the reset.
ConnectRequestsParams ==
    dispatch.evt_id = "BLE_GAP_EVT_CONNECTED" =>
        /\ ble_handles.connection = dispatch.conn_handle
        /\ Len(dispatch.calls) = 2
        /\ dispatch.calls[1].fn = "sd_ble_gap_ppcp_get"
        /\ dispatch.calls[2].fn = "sd_ble_gap_conn_param_update"
        /\ dispatch.calls[2].conn_handle = dispatch.conn_handle
        /\ (pc = "reset") = (dispatch.calls[2].err # NRF_SUCCESS)

\* the update request of a connect event failed
ConnectRequestsParamsWitness ==
    /\ dispatch.evt_id = "BLE_GAP_EVT_CONNECTED"
    /\ dispatch.calls[2].err # NRF_SUCCESS
    /\ Connected
    /\ pc = "reset"


\* C30: the BLE_GATTS_EVT_WRITE arm never blocks.  For a payload of len
\* bytes its loop body is entered at most len times; the arm can run, as
\* one step, whenever the peer delivers, whether rx is empty, partly filled
\* or full; and no step of it moves the foreground into sd_app_evt_wait or
\* anywhere else, or makes a transmit attempt.
WriteArmNeverBlocks ==
    \A len \in 1..MaxLen :
        /\ GattsWriteIterations(rx, Payload(rxArrived, len), 0) <= len
        /\ (Running /\ LinkUp /\ rxArrived + len <= rxBudget) =>
               ENABLED EvtWrite(len)
        /\ ~ENABLED (EvtWrite(len) /\ (pc' # pc \/ hvx_log' # hvx_log
                                         \/ txSent' # txSent \/ tx' # tx))

\* deliveries have met a full rx: it holds all it can and bytes were dropped
WriteArmNeverBlocksWitness ==
    /\ IsFull(rx)
    /\ rxArrived >= Len(rxAccepted) + 2
    /\ rxReturned = <<>>
    /\ evt_pending


\* C31: whatever 16-bit value the peer proposes, negotiated_mtu is within
\* 0..125 afterwards, and the sender's chunk stays within the MAX_MTU_LENGTH
\* bytes of out_buffer.
PayloadFitsChunk ==
    /\ negotiated_mtu \in 0..(MAX_MTU_LENGTH - 3)
    /\ out_len <= MAX_MTU_LENGTH


\* C32: the sender runs only inside mp_hal_stdin_rx_chr, in a pass of its
\* loop that has just found rx empty.  The sender is entered only from the
\* loop test with rx.head = rx.tail; bytes leave tx, transmit attempts are
\* made and bytes are transmitted only while the sender executes; and a
\* write by the console stays where it is and never leaves more than
\* RING_BUFFER_LENGTH - 1 bytes pending.  So when no mp_hal_stdin_rx_chr
\* call finds rx empty nothing is ever transmitted and tx fills up.
SenderOnlyOnEmptyRx ==
    [][pc # "reset" =>
         /\ (pc' = "send_entry" /\ pc # "send_entry") =>
                pc = "rx_wait" /\ rx.head = rx.tail
         /\ (InSender' /\ ~InSender) => pc' = "send_entry"
         /\ (txPopped' # txPopped \/ txSent' # txSent
               \/ txDiscarded' # txDiscarded
               \/ Len(hvx_log') > Len(hvx_log)) => InSender
         /\ txWritten' # txWritten =>
                /\ pc = "console" /\ pc' = "console"
                /\ Count(tx') <= RING_BUFFER_LENGTH - 1
                /\ UNCHANGED <<txPopped, txSent, txDiscarded, hvx_log>>]_vars

\* every mp_hal_stdin_rx_chr call so far found a byte waiting: tx is full,
\* writes have been dropped and nothing has left tx
SenderOnlyOnEmptyRxWitness ==
    /\ Len(rxReturned) >= 1
    /\ pc = "console"
    /\ IsFull(tx)
    /\ txWritten > Len(txAccepted)
    /\ txPopped = <<>>
    /\ txSent = <<>>


\* C33: the connected and disconnected arms leave rx and tx as they are,
\* buffer, head and tail: bytes buffered when the peer disconnects are
\* still there for mp_hal_stdin_rx_chr and the sender after the next connect.
LifecycleKeepsRings ==
    [][dispatch'.evt_id \in {"BLE_GAP_EVT_CONNECTED",
                             "BLE_GAP_EVT_DISCONNECTED"} =>
           UNCHANGED <<rx, tx>>]_vars

\* a second connection has just been made with the bytes of the first
\* still in both rings
LifecycleKeepsRingsWitness ==
    /\ dispatch.evt_id = "BLE_GAP_EVT_CONNECTED"
    /\ connects = 2
    /\ rx.head # rx.tail
    /\ tx.head # tx.tail
    /\ pc # "reset"


FpgaStateStep ==
    /\ fpga_state' # fpga_state =>
          \/ /\ fpga_state' = "FPGA_CONFIGURING"
             /\ pc = "console"
             /\ UNCHANGED <<done_pin, done_irq>>
          \/ fpga_state' = "FPGA_RESET"
          \/ /\ fpga_state = "FPGA_CONFIGURING"
             /\ fpga_state' = "FPGA_RUNNING"
             /\ done_pin' = 1
             /\ done_irq' = [state |-> "FPGA_CONFIGURING", level |-> 1,
                             called |-> FALSE, arg |-> 0]
    /\ Running /\ fpga_state = "FPGA_CONFIGURING" /\ done_pin' # done_pin =>
          fpga_state' = IF done_pin' = 1 THEN "FPGA_RUNNING"
                        ELSE "FPGA_CONFIGURING"
    /\ Running /\ fpga_state = "FPGA_RESET" /\ done_pin' # done_pin =>
          /\ fpga_state' = "FPGA_RESET"
          /\ ~done_irq'.called
          /\ UNCHANGED done_pin_irq

FpgaStateMachine ==
    /\ fpga_state = "FPGA_RESET"
    /\ [][FpgaStateStep]_vars
    /\ [](done_irq.state = "FPGA_RESET" => ~done_irq.called)

\* the FPGA runs after a configuration that a high done pin ended
FpgaStateMachineWitness ==
    /\ fpga_state = "FPGA_RUNNING"
    /\ done_irq = [state |-> "FPGA_CONFIGURING", level |-> 1,
                   called |-> FALSE, arg |-> 0]
    /\ done_pin = 1
    /\ pc = "console"

\* C36: after FPGA.irq(handler), while the FPGA is in FPGA_RUNNING, every
\* edge of the done pin calls the handler with the level of the pin; after
\* FPGA.irq_disable() no edge calls it.
DonePinEdgeCallsHandler ==
    [][Running /\ fpga_state = "FPGA_RUNNING" /\ done_pin' # done_pin =>
          IF irq_requested
          THEN /\ done_irq'.called
               /\ done_irq'.arg = done_pin'
          ELSE ~done_irq'.called]_vars

\* C37: RTC.sleep_ms eventually returns to the console, whenever the
\* compare-1 interrupt is taken, the interval between arming the compare
\* channel and setting the waiting flag included.
SleepMsReturns == (pc = "sleep_set") ~> (pc = "console")

\* C38: an erase, read or write command is sent to the flash only while
\* flash_asleep is false, after the wake sequence if the call found it
\* true; and flash_asleep is true exactly at startup and after sleep()
\* until the next erase, read or write that passes its argument checks: a
\* call that raises for its arguments leaves the mark as it was.
FlashCommands ==
    {status_reg, write_enable_cmd, chip_erase_cmd, erase_block, read_cmd,
     write_buff}

PassesArgumentChecks == {"chip", "block", "page"}

FlashMarkStep ==
    IF pc = "reset"
    THEN pc' # "reset" => flash_asleep'
    ELSE pc' # "reset" /\ flash_call' # flash_call =>
            IF flash_call'.fn = "sleep" THEN flash_asleep'
            ELSE IF flash_call'.args \in PassesArgumentChecks
            THEN ~flash_asleep'
            ELSE flash_asleep' = flash_asleep

FlashAutoWake ==
    /\ flash_asleep = TRUE
    /\ [][FlashMarkStep]_vars
    /\ [](flash_call.fn \in {"erase", "read", "write"} =>
            \A i \in 1..Len(flash_call.xfers) :
               /\ flash_call.xfers[i].cmd \in FlashCommands =>
                     ~flash_call.xfers[i].asleep
               /\ flash_call.xfers[i].asleep =>
                     /\ i <= 3
                     /\ flash_call.xfers[1].cmd = wake_seq)

=============================================================================
